---- MODULE Spec2Model ----
(***************************************************************************)
(* A model of helipad's agent core (src/helipad/agent.py): the bilateral   *)
(* trade protocol with its budget clamps, the monetary helpers buy, pay    *)
(* and balance, and the edge graph with reproduce and die.                 *)
(*                                                                         *)
(* Quantities are exact rationals <<n, d>> in lowest terms with d > 0:     *)
(* Python's "/" is true division, so a clamped trade leaves fractions.     *)
(* Rounding of binary floating point is not modelled.                      *)
(***************************************************************************)
EXTENDS Integers, Sequences, FiniteSets, TLC

VARIABLES goods, currentShortage, currentDemand, moneyGood,
          exists, primitive, id, dead, agents, param, edges, edge,
          hooklog, last, nops

tradeVars == <<goods, currentShortage, currentDemand, moneyGood>>
graphVars == <<exists, primitive, id, dead, agents, param, edges, edge>>
vars == <<goods, currentShortage, currentDemand, moneyGood,
          exists, primitive, id, dead, agents, param, edges, edge,
          hooklog, last, nops>>

(***************************************************************************)
(* Bounds of the model.                                                    *)
(***************************************************************************)
MaxOps == 2
MaxGraphOps == 3
MaxAgents == 5
MaxEdges == 2

Traders == {1, 2}
Goods == {"money", "grain"}
None == "None"

AgentPool == 1..MaxAgents
EdgePool == 1..MaxEdges
Primitives == {"agent", "firm"}
Kinds == {"edge", "lineage"}

(***************************************************************************)
(* Exact rational arithmetic, standing for Python's numeric operators.     *)
(***************************************************************************)
Abs(n) == IF n < 0 THEN -n ELSE n

RECURSIVE GCD(_, _)
GCD(a, b) == IF b = 0 THEN a ELSE GCD(b, a % b)

Norm(n, d) ==
  LET g == GCD(Abs(n), Abs(d))
      s == IF d < 0 THEN -1 ELSE 1
  IN  <<(s * n) \div g, (s * d) \div g>>

R(n) == <<n, 1>>
Zero == R(0)
RNeg(x) == <<-x[1], x[2]>>
RAdd(x, y) ==
  IF x[2] = 1 /\ y[2] = 1 THEN <<x[1] + y[1], 1>>
  ELSE Norm(x[1] * y[2] + y[1] * x[2], x[2] * y[2])
RSub(x, y) == RAdd(x, RNeg(y))
RMul(x, y) ==
  IF x[2] = 1 /\ y[2] = 1 THEN <<x[1] * y[1], 1>>
  ELSE Norm(x[1] * y[1], x[2] * y[2])
RDiv(x, y) == Norm(x[1] * y[2], x[2] * y[1])
RLt(x, y) == x[1] * y[2] < y[1] * x[2]
RGt(x, y) == RLt(y, x)
RLe(x, y) == ~RLt(y, x)

(***************************************************************************)
(* The hook dispatcher, model.doHooks: no callback is registered, so every *)
(* dispatch returns None.  A dispatch is logged with the arguments it was  *)
(* given and the state a callback would have observed.                     *)
(***************************************************************************)
HookEvent(name, args, gs, sh, dm) ==
  [name |-> name, args |-> args, goods |-> gs, short |-> sh, demand |-> dm]

(***************************************************************************)
(* trade, line 41: the local price is bound only when amt2 != 0.           *)
(***************************************************************************)
Price(a1, a2) ==
  IF a2 # Zero THEN [bound |-> TRUE, val |-> RDiv(a1, a2)]
  ELSE [bound |-> FALSE, val |-> Zero]

NoClamp(sh, a1, a2) ==
  [clamp |-> "none", who |-> 0, err |-> "none", amt1 |-> a1, amt2 |-> a2,
   short |-> sh, add |-> Zero, want |-> Zero, have |-> Zero]

(***************************************************************************)
(* FireA without the rescaling of amt2 by the held price.                  *)
(***************************************************************************)
FireANoRescale(gs, sh, who, side, g1, base, newA1, a2, price) ==
  LET add == RSub(base, gs[who][g1])
  IN  [clamp |-> side, who |-> who, err |-> "none", amt1 |-> newA1, amt2 |-> a2,
       short |-> [sh EXCEPT ![who][g1] = RAdd(@, add)],
       add |-> add, want |-> base, have |-> gs[who][g1]]

(***************************************************************************)
(* One branch of a budget constraint on good1 (lines 45-47, 49-51): agent  *)
(* who is short of good1; base - holding is added to its shortage, amt1    *)
(* becomes newA1 and amt2 is rescaled by the held price when amt2 != 0.    *)
(* The division raises ZeroDivisionError when the price is 0, after the    *)
(* shortage was recorded.                                                  *)
(***************************************************************************)
FireA(gs, sh, who, side, g1, base, newA1, a2, price) ==
  LET add == RSub(base, gs[who][g1])
      zdiv == a2 # Zero /\ price.val = Zero
  IN  [clamp |-> side, who |-> who,
       err |-> IF zdiv THEN "ZeroDivisionError" ELSE "none",
       amt1 |-> newA1,
       amt2 |-> IF a2 # Zero /\ ~zdiv THEN RDiv(newA1, price.val) ELSE a2,
       short |-> [sh EXCEPT ![who][g1] = RAdd(@, add)],
       add |-> add, want |-> base, have |-> gs[who][g1]]

(***************************************************************************)
(* trade, lines 44-51: the budget constraint on good1.  The caller is short*)
(* when amt1 > self.goods[good1], else the partner when -amt1 exceeds its  *)
(* holding.                                                                *)
(***************************************************************************)
ClampA(gs, sh, s, p, g1, a1, a2, price) ==
  IF RGt(a1, gs[s][g1]) THEN
    FireA(gs, sh, s, "self", g1, a1, gs[s][g1], a2, price)
  ELSE IF RGt(RNeg(a1), gs[p][g1]) THEN
    FireA(gs, sh, p, "partner", g1, RNeg(a1), RNeg(gs[p][g1]), a2, price)
  ELSE NoClamp(sh, a1, a2)

(***************************************************************************)
(* One branch of the budget constraint on good2 (lines 53-55, 57-59):      *)
(* agent who is short of good2, of which want is demanded from it.  The    *)
(* shortage recorded is base - holding, where the code passes amt1 (line   *)
(* 53) or -amt1 (line 57) as base.  amt2 becomes newA2 and amt1 is rescaled*)
(* as price * amt2, which raises UnboundLocalError when the price was      *)
(* never bound, after the shortage was recorded.                           *)
(***************************************************************************)
FireB(gs, sh, who, side, g2, base, want, a1, newA2, price) ==
  LET add == RSub(base, gs[who][g2])
  IN  [clamp |-> side, who |-> who,
       err |-> IF price.bound THEN "none" ELSE "UnboundLocalError",
       amt1 |-> IF price.bound THEN RMul(price.val, newA2) ELSE a1,
       amt2 |-> newA2,
       short |-> [sh EXCEPT ![who][g2] = RAdd(@, add)],
       add |-> add, want |-> want, have |-> gs[who][g2]]

(***************************************************************************)
(* trade without a budget constraint on good2.                             *)
(***************************************************************************)
ClampBOff(gs, sh, s, p, g2, a1, a2, price) == NoClamp(sh, a1, a2)

(***************************************************************************)
(* trade, lines 52-59: the budget constraint on good2, evaluated on the    *)
(* amounts the good1 constraint left.                                      *)
(***************************************************************************)
ClampB(gs, sh, s, p, g2, a1, a2, price) ==
  IF RGt(a2, gs[p][g2]) THEN
    FireB(gs, sh, p, "partner", g2, a1, a2, a1, gs[p][g2], price)
  ELSE IF RGt(RNeg(a2), gs[s][g2]) THEN
    FireB(gs, sh, s, "self", g2, RNeg(a1), RNeg(a2), a1, RNeg(gs[s][g2]), price)
  ELSE NoClamp(sh, a1, a2)

(***************************************************************************)
(* Transfer crediting the partner with the requested amount of good1       *)
(* instead of the amount that left the caller.                             *)
(***************************************************************************)
TransferLeak(gs, s, p, g1, a1, g2, a2) ==
  LET G1 == [gs EXCEPT ![s][g1] = RSub(@, a1)]
      G2 == [G1 EXCEPT ![p][g1] = RAdd(@, RAdd(a1, R(1)))]
      G3 == [G2 EXCEPT ![s][g2] = RAdd(@, a2)]
  IN  [G3 EXCEPT ![p][g2] = RSub(@, a2)]

(***************************************************************************)
(* Transfer with the two legs' amounts exchanged on the good2 leg.         *)
(***************************************************************************)
TransferSwapped(gs, s, p, g1, a1, g2, a2) ==
  LET G1 == [gs EXCEPT ![s][g1] = RSub(@, a1)]
      G2 == [G1 EXCEPT ![p][g1] = RAdd(@, a1)]
      G3 == [G2 EXCEPT ![s][g2] = RAdd(@, a1)]
  IN  [G3 EXCEPT ![p][g2] = RSub(@, a1)]

(***************************************************************************)
(* trade, lines 61-64: the four ledger updates, in the order of the code   *)
(* (the caller and the partner, or the two goods, may be the same).        *)
(***************************************************************************)
Transfer(gs, s, p, g1, a1, g2, a2) ==
  LET G1 == [gs EXCEPT ![s][g1] = RSub(@, a1)]
      G2 == [G1 EXCEPT ![p][g1] = RAdd(@, a1)]
      G3 == [G2 EXCEPT ![s][g2] = RAdd(@, a2)]
  IN  [G3 EXCEPT ![p][g2] = RSub(@, a2)]

(***************************************************************************)
(* trade, lines 67-70: demand is recorded on the receiver of each good.    *)
(***************************************************************************)
RecordDemand(dm, s, p, g1, a1, g2, a2) ==
  LET D1 == IF RGt(a1, Zero) THEN [dm EXCEPT ![p][g1] = RAdd(@, a1)]
            ELSE [dm EXCEPT ![s][g1] = RSub(@, a1)]
  IN  IF RGt(a2, Zero) THEN [D1 EXCEPT ![s][g2] = RAdd(@, a2)]
      ELSE [D1 EXCEPT ![p][g2] = RSub(@, a2)]

(***************************************************************************)
(* baseAgent.trade, lines 38-72, as a function of the state it reads: the  *)
(* state it leaves, the hooks it fires, the exception it raises and the    *)
(* final amounts.  An exception leaves the shortages already recorded and  *)
(* skips the transfers, the demand and the postTrade hook.                 *)
(***************************************************************************)
TradeCall(gs, sh, dm, s, p, g1, a1, g2, a2) ==
  LET pre == HookEvent("preTrade", <<s, p, g1, a1, g2, a2>>, gs, sh, dm)
      price == Price(a1, a2)
      A == ClampA(gs, sh, s, p, g1, a1, a2, price)
      B == IF A.err = "none"
           THEN ClampB(gs, A.short, s, p, g2, A.amt1, A.amt2, price)
           ELSE NoClamp(A.short, A.amt1, A.amt2)
      err == IF A.err # "none" THEN A.err ELSE B.err
      G == Transfer(gs, s, p, g1, B.amt1, g2, B.amt2)
      D == RecordDemand(dm, s, p, g1, B.amt1, g2, B.amt2)
      post == HookEvent("postTrade", <<s, p, g1, B.amt1, g2, B.amt2>>, G, B.short, D)
  IN  [goods |-> IF err = "none" THEN G ELSE gs,
       short |-> B.short,
       demand |-> IF err = "none" THEN D ELSE dm,
       hooks |-> IF err = "none" THEN <<pre, post>> ELSE <<pre>>,
       err |-> err, amt1 |-> B.amt1, amt2 |-> B.amt2, A |-> A, B |-> B]

(***************************************************************************)
(* baseAgent.balance, lines 190-197: the holding of the monetary good; the *)
(* checkBalance hook returns None, so the holding is the balance.          *)
(***************************************************************************)
Balance(gs, mg, a) == gs[a][mg]

BalanceHook(gs, sh, dm, mg, a) ==
  HookEvent("checkBalance", <<a, Balance(gs, mg, a)>>, gs, sh, dm)

(***************************************************************************)
(* PayAmount without the constraint against the recipient's balance.       *)
(***************************************************************************)
PayAmountPayerOnly(gs, mg, s, r, amount) ==
  IF RGt(amount, gs[s][mg]) THEN gs[s][mg] ELSE amount

(***************************************************************************)
(* pay, lines 90-91: the budget constraint of a payment, first against the *)
(* payer's balance, then (on the amount that leaves) against the           *)
(* recipient's.                                                            *)
(***************************************************************************)
PayAmount(gs, mg, s, r, amount) ==
  LET a1 == IF RGt(amount, Balance(gs, mg, s)) THEN Balance(gs, mg, s) ELSE amount
  IN  IF RGt(RNeg(a1), Balance(gs, mg, r)) THEN RNeg(Balance(gs, mg, r)) ELSE a1

(***************************************************************************)
(* pay, lines 90-91: every read of a balance dispatches checkBalance, once *)
(* for a comparison and once more for the assignment when it is taken.     *)
(***************************************************************************)
PayBalanceHooks(gs, sh, dm, mg, s, r, amount) ==
  LET hs == BalanceHook(gs, sh, dm, mg, s)
      hr == BalanceHook(gs, sh, dm, mg, r)
      c1 == RGt(amount, Balance(gs, mg, s))
      a1 == IF c1 THEN Balance(gs, mg, s) ELSE amount
      c2 == RGt(RNeg(a1), Balance(gs, mg, r))
  IN  (IF c1 THEN <<hs, hs>> ELSE <<hs>>) \o (IF c2 THEN <<hr, hr>> ELSE <<hr>>)

(***************************************************************************)
(* pay, lines 95-97: the transfer, skipped when the amount is 0; the       *)
(* recipient is credited first, then the payer debited.                    *)
(***************************************************************************)
PayTransfer(gs, mg, s, r, amount) ==
  IF amount # Zero
  THEN LET G1 == [gs EXCEPT ![r][mg] = RAdd(@, amount)]
       IN  [G1 EXCEPT ![s][mg] = RSub(@, amount)]
  ELSE gs

(***************************************************************************)
(* ConfigError raised only after a hook was dispatched.                    *)
(***************************************************************************)
ConfigErrorLate(gs, sh, dm) ==
  [goods |-> gs, short |-> sh, demand |-> dm,
   hooks |-> <<HookEvent("buy", <<>>, gs, sh, dm)>>,
   err |-> "RuntimeError", ret |-> Zero]

(***************************************************************************)
(* What buy, pay and balance do when model.moneyGood is None (lines 77, 87 *)
(* and 192): RuntimeError is raised before anything else happens.          *)
(***************************************************************************)
ConfigError(gs, sh, dm) ==
  [goods |-> gs, short |-> sh, demand |-> dm, hooks |-> <<>>,
   err |-> "RuntimeError", ret |-> Zero]

(***************************************************************************)
(* baseAgent.pay, lines 86-98.                                             *)
(***************************************************************************)
PayCall(gs, sh, dm, mg, s, r, amount) ==
  IF mg = None THEN ConfigError(gs, sh, dm)
  ELSE LET amt == PayAmount(gs, mg, s, r, amount)
           G == PayTransfer(gs, mg, s, r, amt)
       IN  [goods |-> G, short |-> sh, demand |-> dm,
            hooks |-> PayBalanceHooks(gs, sh, dm, mg, s, r, amount)
                      \o <<HookEvent("pay", <<s, r, amt>>, gs, sh, dm)>>,
            err |-> "none", ret |-> amt]

(***************************************************************************)
(* The balance property read, lines 190-197.                               *)
(***************************************************************************)
BalanceCall(gs, sh, dm, mg, a) ==
  IF mg = None THEN ConfigError(gs, sh, dm)
  ELSE [goods |-> gs, short |-> sh, demand |-> dm,
        hooks |-> <<BalanceHook(gs, sh, dm, mg, a)>>,
        err |-> "none", ret |-> Balance(gs, mg, a)]

(***************************************************************************)
(* BuyReturn giving back the holding after the trade.                      *)
(***************************************************************************)
BuyReturnHolding(before, after) == after

(***************************************************************************)
(* buy, line 83: the quantity returned is the buyer's holding of the good  *)
(* after the trade minus the holding read before it.                       *)
(***************************************************************************)
BuyReturn(before, after) == RSub(after, before)

(***************************************************************************)
(* The record of the last call: its arguments, the state before it and     *)
(* what the budget constraints did.                                        *)
(***************************************************************************)
NoTrade(sh) ==
  [amt1 |-> Zero, amt2 |-> Zero, A |-> NoClamp(sh, Zero, Zero),
   B |-> NoClamp(sh, Zero, Zero)]

LastCall(op, s, p, g1, r1, g2, r2, pr, T, err, ret) ==
  [op |-> op, self |-> s, partner |-> p, good1 |-> g1, good2 |-> g2,
   req1 |-> r1, req2 |-> r2, price |-> pr, amt1 |-> T.amt1, amt2 |-> T.amt2,
   clampA |-> T.A.clamp, whoA |-> T.A.who, addA |-> T.A.add,
   wantA |-> T.A.want, haveA |-> T.A.have,
   clampB |-> T.B.clamp, whoB |-> T.B.who, addB |-> T.B.add,
   wantB |-> T.B.want, haveB |-> T.B.have,
   err |-> err, ret |-> ret,
   goods0 |-> goods, short0 |-> currentShortage, demand0 |-> currentDemand]

(***************************************************************************)
(* The population and the edge graph.  An agent's edges dict is a sequence *)
(* of [kind, list] entries in insertion order; edge[e] is the Edge object  *)
(* e, with 0 for a None startpoint or endpoint.                            *)
(***************************************************************************)
Range(f) == {f[i] : i \in DOMAIN f}

HasKind(c, k) == \E i \in DOMAIN c : c[i].kind = k
KindIdx(c, k) == CHOOSE i \in DOMAIN c : c[i].kind = k
ListOf(c, k) == IF HasKind(c, k) THEN c[KindIdx(c, k)].list ELSE <<>>

RemoveFirst(l, x) ==
  LET i == CHOOSE j \in DOMAIN l : l[j] = x /\ \A h \in 1..(j - 1) : l[h] # x
  IN  SubSeq(l, 1, i - 1) \o SubSeq(l, i + 1, Len(l))

(***************************************************************************)
(* agent.edges[kind].remove(edge), lines 235 and 246: KeyError when the    *)
(* agent has no list for the kind, ValueError when the edge is not in it.  *)
(***************************************************************************)
CollRemove(c, k, e) ==
  IF ~HasKind(c, k) THEN [err |-> "KeyError", c |-> c]
  ELSE IF e \notin Range(ListOf(c, k)) THEN [err |-> "ValueError", c |-> c]
  ELSE [err |-> "none",
        c |-> [c EXCEPT ![KindIdx(c, k)].list = RemoveFirst(@, e)]]

(***************************************************************************)
(* Edge.__init__, lines 230-231: the list for the kind is created when     *)
(* missing, and the edge appended to it.                                   *)
(***************************************************************************)
CollRegister(c, k, e) ==
  IF HasKind(c, k) THEN [c EXCEPT ![KindIdx(c, k)].list = Append(@, e)]
  ELSE Append(c, [kind |-> k, list |-> <<e>>])

(***************************************************************************)
(* baseAgent.alledges, lines 175-179: the lists of all kinds, concatenated *)
(* into a new list.                                                        *)
(***************************************************************************)
RECURSIVE alledges(_)
alledges(c) == IF c = <<>> THEN <<>> ELSE Head(c).list \o alledges(Tail(c))

GraphEvent(name, args, st) ==
  [name |-> name, args |-> args, agents |-> st.agents, param |-> st.param,
   edges |-> st.edges, edge |-> st.edge, dead |-> st.dead]

Fire(st, name, args) ==
  [st EXCEPT !.hooks = Append(@, GraphEvent(name, args, st))]

Raise(st, err) == [st EXCEPT !.err = err]

(***************************************************************************)
(* Edge.cut, lines 234-237: the edge is removed from the list of each of   *)
(* its vertices in turn, marked inactive, then edgeCut is dispatched.  An  *)
(* exception keeps what was done before it.                                *)
(***************************************************************************)
CutCall(st, e) ==
  LET v == st.edge[e].vertices
      k == st.edge[e].kind
      r1 == CollRemove(st.edges[v[1]], k, e)
      st1 == [st EXCEPT !.edges[v[1]] = r1.c]
      r2 == CollRemove(st1.edges[v[2]], k, e)
      st2 == [st1 EXCEPT !.edges[v[2]] = r2.c]
  IN  IF r1.err # "none" THEN Raise(st, r1.err)
      ELSE IF r2.err # "none" THEN Raise(st1, r2.err)
      ELSE Fire([st2 EXCEPT !.edge[e].active = FALSE], "edgeCut", <<e>>)

RECURSIVE CutAll(_, _)
CutAll(st, es) ==
  IF es = <<>> \/ st.err # "none" THEN st
  ELSE CutAll(CutCall(st, Head(es)), Tail(es))

(***************************************************************************)
(* die dispatching the death hook before the edges are cut.                *)
(***************************************************************************)
DieCallHookFirst(st, a) ==
  LET pr == st.primitive[a]
  IN  IF a \notin Range(st.agents[pr]) THEN Raise(st, "ValueError")
      ELSE LET st1 == [st EXCEPT !.agents[pr] = RemoveFirst(@, a)]
               st2 == [st1 EXCEPT !.param[pr] = @ - 1]
               st3 == Fire(st2, "baseAgentDie", <<a>>)
               st4 == CutAll(st3, alledges(st3.edges[a]))
           IN  IF st4.err # "none" THEN st4
               ELSE [st4 EXCEPT !.dead[a] = TRUE]

(***************************************************************************)
(* die decrementing the count before the registry is searched, so that a   *)
(* call on an unregistered agent fails with the count already changed.     *)
(***************************************************************************)
DieCallCountFirst(st, a) ==
  LET pr == st.primitive[a]
      st0 == [st EXCEPT !.param[pr] = @ - 1]
  IN  IF a \notin Range(st.agents[pr]) THEN Raise(st0, "ValueError")
      ELSE LET st1 == [st0 EXCEPT !.agents[pr] = RemoveFirst(@, a)]
               st3 == CutAll(st1, alledges(st1.edges[a]))
           IN  IF st3.err # "none" THEN st3
               ELSE [Fire(st3, "baseAgentDie", <<a>>) EXCEPT !.dead[a] = TRUE]

(***************************************************************************)
(* baseAgent.die, lines 134-139.  list.remove raises ValueError when the   *)
(* agent is not in the registry of its primitive.                          *)
(***************************************************************************)
DieCall(st, a) ==
  LET pr == st.primitive[a]
  IN  IF a \notin Range(st.agents[pr]) THEN Raise(st, "ValueError")
      ELSE LET st1 == [st EXCEPT !.agents[pr] = RemoveFirst(@, a)]
               st2 == [st1 EXCEPT !.param[pr] = @ - 1]
               st3 == CutAll(st2, alledges(st2.edges[a]))
           IN  IF st3.err # "none" THEN st3
               ELSE [Fire(st3, "baseAgentDie", <<a>>) EXCEPT !.dead[a] = TRUE]

(***************************************************************************)
(* Edge.partner, lines 239-242.                                            *)
(***************************************************************************)
Partner(v, a) == IF a = v[1] THEN v[2] ELSE IF a = v[2] THEN v[1] ELSE 0

(***************************************************************************)
(* Edge.reassign, lines 244-248: the vertices are replaced first; then the *)
(* edge is removed from oldagent's list and appended to newagent's list    *)
(* for the kind, which raises KeyError when newagent has none.             *)
(***************************************************************************)
ReassignCall(st, e, old, new) ==
  LET v == st.edge[e].vertices
      k == st.edge[e].kind
      st1 == [st EXCEPT !.edge[e].vertices = <<Partner(v, old), new>>]
      r == CollRemove(st1.edges[old], k, e)
      st2 == [st1 EXCEPT !.edges[old] = r.c]
      st3 == [st2 EXCEPT !.edges[new] = CollRegister(@, k, e)]
  IN  IF Partner(v, old) = 0 THEN Raise(st, "ValueError")
      ELSE IF r.err # "none" THEN Raise(st1, r.err)
      ELSE IF ~HasKind(st2.edges[new], k) THEN Raise(st2, "KeyError")
      ELSE Fire(st3, "edgeReassign", <<e, old, new>>)

(***************************************************************************)
(* Edge.__init__, lines 212-228: the orientation a direction argument      *)
(* gives.  A direction is [t, v]: its type and its value (1 and 0 for True *)
(* and False, the agent for an agent).  A bool is an int in Python, so     *)
(* True and False take the int branch; an agent must be one of the two     *)
(* vertices.                                                               *)
(***************************************************************************)
Undirected == [err |-> "none", directed |-> FALSE, startpoint |-> 0, endpoint |-> 0]
Directed(from, to) ==
  [err |-> "none", directed |-> TRUE, startpoint |-> from, endpoint |-> to]

(* A variant that takes any agent as the endpoint without the vertex test  *)
(* of line 223.                                                            *)
OrientationUnchecked(a1, a2, dir) ==
  CASE dir.t = "none" -> Undirected
    [] dir.t = "int" -> IF dir.v = 0 THEN Undirected
                        ELSE IF dir.v > 0 THEN Directed(a1, a2)
                        ELSE Directed(a2, a1)
    [] dir.t = "bool" -> IF dir.v > 0 THEN Directed(a1, a2) ELSE Undirected
    [] dir.t = "agent" -> Directed(IF dir.v = a2 THEN a1 ELSE a2, dir.v)
    [] OTHER -> [Undirected EXCEPT !.err = "ValueError"]

Orientation(a1, a2, dir) ==
  CASE dir.t = "none" -> Undirected
    [] dir.t = "int" -> IF dir.v = 0 THEN Undirected
                        ELSE IF dir.v > 0 THEN Directed(a1, a2)
                        ELSE Directed(a2, a1)
    [] dir.t = "bool" -> IF dir.v > 0 THEN Directed(a1, a2) ELSE Undirected
    [] dir.t = "agent" -> IF dir.v \notin {a1, a2}
                          THEN [Undirected EXCEPT !.err = "ValueError"]
                          ELSE Directed(IF dir.v = a2 THEN a1 ELSE a2, dir.v)
    [] OTHER -> [Undirected EXCEPT !.err = "ValueError"]

(***************************************************************************)
(* Edge.__init__, lines 207-232, for the new Edge object e: an invalid     *)
(* direction raises before the edge is registered anywhere.                *)
(***************************************************************************)
NewEdgeCall(st, e, a1, a2, k, dir, w) ==
  LET o == Orientation(a1, a2, dir)
      obj == [made |-> TRUE, active |-> TRUE, kind |-> k, vertices |-> <<a1, a2>>,
              weight |-> w, directed |-> o.directed,
              startpoint |-> o.startpoint, endpoint |-> o.endpoint]
      st1 == [st EXCEPT !.edge[e] = obj]
      st2 == [st1 EXCEPT !.edges[a1] = CollRegister(@, k, e)]
      st3 == [st2 EXCEPT !.edges[a2] = CollRegister(@, k, e)]
  IN  IF o.err # "none" THEN Raise(st, o.err)
      ELSE Fire(st3, "edgeInit", <<e, k, a1, a2>>)

Max(S) == CHOOSE x \in S : \A y \in S : y <= x

DirNone == [t |-> "none", v |-> 0]
DirTrue == [t |-> "bool", v |-> 1]

(***************************************************************************)
(* reproduce, lines 101-105: one more than the largest id in the registry  *)
(* of the 'agent' primitive, starting from 0.                              *)
(***************************************************************************)
NewId(st) == Max({0} \cup {st.id[x] : x \in Range(st.agents["agent"])}) + 1

(***************************************************************************)
(* baseAgent.reproduce, lines 100-132, with inherit=[] and mutate={}: the  *)
(* child is a new Agent object c of the 'agent' primitive, linked by the   *)
(* new Edge object e and appended to the registry of the parent's          *)
(* primitive.                                                              *)
(***************************************************************************)
ReproduceCall(st, a, c, e) ==
  LET pr == st.primitive[a]
      st1 == [st EXCEPT !.exists = @ \cup {c}, !.id[c] = NewId(st),
                        !.primitive[c] = "agent", !.dead[c] = FALSE,
                        !.edges[c] = <<>>]
      st2 == Fire(st1, "baseAgentInit", <<c>>)
      st3 == NewEdgeCall(st2, e, a, c, "lineage", DirTrue, 1)
      st4 == [st3 EXCEPT !.agents[pr] = Append(@, c)]
      st5 == [st4 EXCEPT !.param[pr] = @ + 1]
  IN  Fire(st5, "agentReproduce", <<a, c>>)

(***************************************************************************)
(* The population after construction: two agents of the 'agent' primitive  *)
(* and one of a 'firm' primitive, registered, counted and without edges.   *)
(***************************************************************************)
NoEdge ==
  [made |-> FALSE, active |-> FALSE, kind |-> "", vertices |-> <<0, 0>>,
   weight |-> 0, directed |-> FALSE, startpoint |-> 0, endpoint |-> 0]

InitPopulation ==
  /\ exists = {1, 2, 3}
  /\ primitive = [a \in AgentPool |-> IF a = 3 THEN "firm" ELSE "agent"]
  /\ id = [a \in AgentPool |-> IF a = 2 THEN 2 ELSE IF a \in {1, 3} THEN 1 ELSE 0]
  /\ dead = [a \in AgentPool |-> FALSE]
  /\ agents = [p \in Primitives |-> IF p = "agent" THEN <<1, 2>> ELSE <<3>>]
  /\ param = [p \in Primitives |-> IF p = "agent" THEN 2 ELSE 1]
  /\ edges = [a \in AgentPool |-> <<>>]
  /\ edge = [e \in EdgePool |-> NoEdge]

GraphState ==
  [exists |-> exists, primitive |-> primitive, id |-> id, dead |-> dead,
   agents |-> agents, param |-> param, edges |-> edges, edge |-> edge,
   hooks |-> <<>>, err |-> "none"]

LastGraph(op, a, b, e, k, dir, err) ==
  [op |-> op, self |-> a, other |-> b, e |-> e, kind |-> k, dir |-> dir, err |-> err,
   exists0 |-> exists, dead0 |-> dead, agents0 |-> agents, param0 |-> param,
   edges0 |-> edges, edge0 |-> edge]

CommitGraph(st) ==
  /\ exists' = st.exists
  /\ primitive' = st.primitive
  /\ id' = st.id
  /\ dead' = st.dead
  /\ agents' = st.agents
  /\ param' = st.param
  /\ edges' = st.edges
  /\ edge' = st.edge
  /\ hooklog' = st.hooks
  /\ nops' = nops + 1
  /\ UNCHANGED tradeVars

FreeEdges == {e \in EdgePool : ~edge[e].made}
FreeAgents == AgentPool \ exists
Min(S) == CHOOSE x \in S : \A y \in S : x <= y
GraphDirs == {DirNone, [t |-> "int", v |-> 1]}

(***************************************************************************)
(* baseAgent.newEdge, lines 141-142: any two agent objects, dead or alive, *)
(* the same or different.                                                  *)
(***************************************************************************)
NewEdgeStep(dirs) ==
  /\ nops < MaxGraphOps
  /\ FreeEdges # {}
  /\ \E a \in exists, b \in exists, k \in Kinds, dir \in dirs :
       \E st \in {NewEdgeCall(GraphState, Min(FreeEdges), a, b, k, dir, 1)} :
         /\ CommitGraph(st)
         /\ last' = LastGraph("newEdge", a, b, Min(FreeEdges), k, dir, st.err)

newEdge == NewEdgeStep(GraphDirs)

(***************************************************************************)
(* Edge.cut, lines 234-237, on any Edge object, cut before or not.         *)
(***************************************************************************)
cut ==
  /\ nops < MaxGraphOps
  /\ \E e \in EdgePool :
       /\ edge[e].made
       /\ \E st \in {CutCall(GraphState, e)} :
            /\ CommitGraph(st)
            /\ last' = LastGraph("cut", 0, 0, e, edge[e].kind, DirNone, st.err)

(***************************************************************************)
(* Edge.reassign, lines 244-248, with any two agent objects.               *)
(***************************************************************************)
reassign ==
  /\ nops < MaxGraphOps
  /\ \E e \in EdgePool, old \in exists, new \in exists :
       /\ edge[e].made
       /\ \E st \in {ReassignCall(GraphState, e, old, new)} :
            /\ CommitGraph(st)
            /\ last' = LastGraph("reassign", old, new, e, edge[e].kind, DirNone, st.err)

(***************************************************************************)
(* baseAgent.reproduce, lines 100-132, by any agent object.                *)
(***************************************************************************)
reproduce ==
  /\ nops < MaxGraphOps
  /\ FreeEdges # {} /\ FreeAgents # {}
  /\ \E a \in exists :
       \E st \in {ReproduceCall(GraphState, a, Min(FreeAgents), Min(FreeEdges))} :
         /\ CommitGraph(st)
         /\ last' = LastGraph("reproduce", a, Min(FreeAgents), Min(FreeEdges),
                              "lineage", DirTrue, st.err)

(***************************************************************************)
(* baseAgent.die, lines 134-139, on any agent object.                      *)
(***************************************************************************)
die ==
  /\ nops < MaxGraphOps
  /\ \E a \in exists :
       \E st \in {DieCall(GraphState, a)} :
         /\ CommitGraph(st)
         /\ last' = LastGraph("die", a, 0, 0, "", DirNone, st.err)

(***************************************************************************)
(* Inputs of the trade operations.                                         *)
(***************************************************************************)
EndowVals == {R(1), R(3)}
TradeAmts == {R(-2), R(0), R(3)}
BuyQty == {R(-1), R(0), R(1), R(2)}
BuyPrice == {R(-1), R(0), R(2)}
PayAmts == {R(-2), R(0), R(2), R(4)}

ZeroLedger == [a \in Traders |-> [g \in Goods |-> Zero]]

(***************************************************************************)
(* baseAgent.__init__, lines 19-28: the ledger holds each good's endowment,*)
(* which may depend on the agent, and the accumulators are 0.              *)
(***************************************************************************)
InitLedgers ==
  /\ goods \in [Traders -> [Goods -> EndowVals]]
  /\ currentShortage = ZeroLedger
  /\ currentDemand = ZeroLedger
  /\ InitPopulation
  /\ hooklog = <<>>
  /\ nops = 0
  /\ last = LastCall("init", 0, 0, None, Zero, None, Zero, Zero,
                     NoTrade(ZeroLedger), "none", Zero)

Commit(o) ==
  /\ goods' = o.goods
  /\ currentShortage' = o.short
  /\ currentDemand' = o.demand
  /\ hooklog' = o.hooks
  /\ nops' = nops + 1
  /\ UNCHANGED <<moneyGood, graphVars>>

(***************************************************************************)
(* baseAgent.trade, lines 38-72.                                           *)
(***************************************************************************)
trade ==
  /\ nops < MaxOps
  /\ \E s \in Traders, p \in Traders, g1 \in Goods, g2 \in Goods,
        a1 \in TradeAmts, a2 \in TradeAmts :
       \E T \in {TradeCall(goods, currentShortage, currentDemand, s, p, g1, a1, g2, a2)} :
           /\ Commit(T)
           /\ last' = LastCall("trade", s, p, g1, a1, g2, a2, Zero, T, T.err, Zero)

(***************************************************************************)
(* baseAgent.buy, lines 76-83: the buy hook returns None, so q and p are   *)
(* kept; the trade pays p*q of the monetary good for q of the good.        *)
(***************************************************************************)
buy ==
  /\ nops < MaxOps
  /\ \E s \in Traders, p \in Traders, good \in Goods, q \in BuyQty, pr \in BuyPrice :
       IF moneyGood = None
       THEN /\ Commit(ConfigError(goods, currentShortage, currentDemand))
            /\ last' = LastCall("buy", s, p, None, RMul(pr, q), good, q, pr,
                                NoTrade(currentShortage), "RuntimeError", Zero)
       ELSE \E T \in {TradeCall(goods, currentShortage, currentDemand,
                                  s, p, moneyGood, RMul(pr, q), good, q)} :
              LET h == HookEvent("buy", <<s, p, good, q, pr>>,
                                 goods, currentShortage, currentDemand)
                  ret == BuyReturn(goods[s][good], T.goods[s][good])
              IN  /\ Commit([T EXCEPT !.hooks = <<h>> \o @])
                  /\ last' = LastCall("buy", s, p, moneyGood, RMul(pr, q), good, q, pr,
                                      T, T.err, IF T.err = "none" THEN ret ELSE Zero)

(***************************************************************************)
(* baseAgent.pay, lines 86-98.                                             *)
(***************************************************************************)
pay ==
  /\ nops < MaxOps
  /\ \E s \in Traders, r \in Traders, amount \in PayAmts :
       \E P \in {PayCall(goods, currentShortage, currentDemand, moneyGood, s, r, amount)} :
           /\ Commit(P)
           /\ last' = LastCall("pay", s, r, moneyGood, amount, moneyGood, Zero, Zero,
                               NoTrade(currentShortage), P.err, P.ret)

(***************************************************************************)
(* A read of the balance property, lines 190-197.                          *)
(***************************************************************************)
balance ==
  /\ nops < MaxOps
  /\ \E a \in Traders :
       \E P \in {BalanceCall(goods, currentShortage, currentDemand, moneyGood, a)} :
           /\ Commit(P)
           /\ last' = LastCall("balance", a, a, moneyGood, Zero, moneyGood, Zero, Zero,
                               NoTrade(currentShortage), P.err, P.ret)

(***************************************************************************)
(* Trades alone: no monetary good is configured (none is needed).          *)
(***************************************************************************)
InitTrade == InitLedgers /\ moneyGood = None
NextTrade == trade
SpecTrade == InitTrade /\ [][NextTrade]_vars

(***************************************************************************)
(* The monetary helpers, with and without a monetary good configured.      *)
(***************************************************************************)
InitMoney == InitLedgers /\ moneyGood \in {None, "money"}
NextMoney == buy \/ pay \/ balance
SpecMoney == InitMoney /\ [][NextMoney]_vars

(***************************************************************************)
(* The population and its graph: every agent holds the constant endowment. *)
(***************************************************************************)
InitGraph ==
  /\ InitPopulation
  /\ goods = [a \in Traders |-> [g \in Goods |-> R(1)]]
  /\ currentShortage = ZeroLedger
  /\ currentDemand = ZeroLedger
  /\ moneyGood = None
  /\ hooklog = <<>>
  /\ nops = 0
  /\ last = LastGraph("init", 0, 0, 0, "", DirNone, "none")
NextGraph == newEdge \/ cut \/ reassign \/ reproduce \/ die
SpecGraph == InitGraph /\ [][NextGraph]_vars

Init == InitMoney \/ InitGraph
Next == NextTrade \/ NextMoney \/ NextGraph
Spec == Init /\ [][Next]_vars

(***************************************************************************)
(* Properties of trade.                                                    *)
(***************************************************************************)
Completed == last.err = "none"
TradeDone == last.op = "trade" /\ Completed
Held(gs, a, b, g) == RAdd(gs[a][g], gs[b][g])
Delta(gs1, gs0, a, g) == RSub(gs1[a][g], gs0[a][g])

(* C1: every completed trade conserves each of its two goods: the sum of   *)
(* the caller's and the partner's holdings of good1, and of good2, is the  *)
(* same after the call as before, whatever the signs and the clamps.       *)
C1_Conservation ==
  TradeDone =>
    /\ Held(goods, last.self, last.partner, last.good1)
         = Held(last.goods0, last.self, last.partner, last.good1)
    /\ Held(goods, last.self, last.partner, last.good2)
         = Held(last.goods0, last.self, last.partner, last.good2)
    /\ (last.self # last.partner /\ last.good1 # last.good2) =>
         /\ Delta(goods, last.goods0, last.partner, last.good1)
              = RNeg(Delta(goods, last.goods0, last.self, last.good1))
         /\ Delta(goods, last.goods0, last.self, last.good2)
              = RNeg(Delta(goods, last.goods0, last.partner, last.good2))

(* C1 witness: a completed trade between two agents in two goods in which  *)
(* both budget constraints fired and something was transferred.            *)
C1_Witness ==
  /\ TradeDone
  /\ last.self # last.partner /\ last.good1 # last.good2
  /\ last.clampA # "none" /\ last.clampB # "none"
  /\ last.amt1 # Zero /\ last.amt2 # Zero

(* C2: no trade lowers a shortage entry, and every entry stays >= 0.       *)
C2_ShortageMonotone ==
  last.op = "trade" =>
    \A a \in Traders, g \in Goods :
      /\ RLe(last.short0[a][g], currentShortage[a][g])
      /\ RLe(Zero, currentShortage[a][g])

(* C3: whenever a budget constraint fires, for either good and on either   *)
(* side, the amount added to the short party's shortage is the quantity of *)
(* that good demanded from it minus its holding of that good.              *)
C3_ShortageIsUnmet ==
  last.op = "trade" =>
    /\ last.clampA # "none" => last.addA = RSub(last.wantA, last.haveA)
    /\ last.clampB # "none" => last.addB = RSub(last.wantB, last.haveB)

Unclamped == TradeDone /\ last.clampA = "none" /\ last.clampB = "none"
ExactTransfer ==
  /\ Delta(goods, last.goods0, last.partner, last.good1) = last.req1
  /\ Delta(goods, last.goods0, last.self, last.good2) = last.req2
  /\ currentShortage = last.short0

(* C4 as stated: in any trade in which no budget constraint fires, the     *)
(* partner's holding of good1 changes by +amt1, the caller's holding of    *)
(* good2 by +amt2, and no shortage entry changes.                          *)
C4_Original == Unclamped => ExactTransfer

(* C4 as amended: the same, for a trade between two different agents in    *)
(* two different goods.                                                    *)
C4_ExactWhenUnclamped ==
  (Unclamped /\ last.self # last.partner /\ last.good1 # last.good2) => ExactTransfer

(* C4 witness: an unclamped trade between two agents in two goods with     *)
(* both amounts non-zero.                                                  *)
C4_Witness ==
  /\ Unclamped /\ last.self # last.partner /\ last.good1 # last.good2
  /\ last.req1 # Zero /\ last.req2 # Zero

OnlyAClamped ==
  TradeDone /\ last.req2 # Zero /\ last.clampA # "none" /\ last.clampB = "none"

(* C5: when amt2 != 0 and only the good1 constraint fires, the realized    *)
(* amounts keep the price amt1/amt2 of the request.                        *)
C5_PricePreserved ==
  OnlyAClamped =>
    /\ RMul(last.amt1, last.req2) = RMul(last.amt2, last.req1)
    /\ last.req1 # Zero
    /\ last.amt2 = RDiv(last.amt1, RDiv(last.req1, last.req2))

(* C5 witness: only the good1 constraint fired and the rescaled amt2 is a  *)
(* fraction.                                                               *)
C5_Witness == OnlyAClamped /\ last.amt2[2] # 1

(***************************************************************************)
(* Properties of the monetary helpers.                                     *)
(***************************************************************************)
BuyDone == last.op = "buy" /\ moneyGood # None /\ Completed
NonNegative(gs) == \A a \in Traders, g \in Goods : RLe(Zero, gs[a][g])

BuyPost ==
  LET s == last.self
      p == last.partner
      g == last.good2
      q == last.req2
      cost == last.req1
      m == last.goods0[s][moneyGood]
  IN  /\ last.ret = Delta(goods, last.goods0, s, g)
      /\ last.ret = RNeg(Delta(goods, last.goods0, p, g))
      /\ (RLe(cost, m) /\ RLe(q, last.goods0[p][g])) => last.ret = q
      /\ (RLt(m, cost) /\ RLe(q, last.goods0[p][g])) =>
           /\ last.price # Zero
           /\ last.ret = RDiv(m, last.price)
           /\ goods[s][moneyGood] = Zero
           /\ Delta(goods, last.goods0, p, moneyGood) = m
           /\ Delta(currentShortage, last.short0, s, moneyGood) = RSub(cost, m)

(* C6 as stated: a completed buy returns the quantity of the good the      *)
(* buyer received, which is the quantity the partner gave up; it is q when *)
(* the buyer holds p*q money and the partner q of the good, and m/p, with  *)
(* the buyer's money at 0, m paid and p*q - m recorded as money shortage,  *)
(* when the buyer holds m < p*q and the partner has the good.              *)
C6_Original == BuyDone => BuyPost

BuyRegular ==
  /\ BuyDone
  /\ last.self # last.partner
  /\ last.good2 # moneyGood
  /\ RLe(Zero, last.req2)
  /\ RLe(Zero, last.price)
  /\ NonNegative(last.goods0)

(* C6 as amended: the same, for a buy of a quantity q >= 0 at a price      *)
(* p >= 0 of a good other than the monetary good, from a partner other     *)
(* than the buyer, when no holding is negative before the call.            *)
C6_BuyReturnsReceived == BuyRegular => BuyPost

(* C6 witness: such a buy in which the buyer's money fell short and the    *)
(* quantity returned is a fraction.                                        *)
C6_Witness ==
  /\ BuyRegular
  /\ RLt(last.goods0[last.self][moneyGood], last.req1)
  /\ RLe(last.req2, last.goods0[last.partner][last.good2])
  /\ last.ret[2] # 1

PayCase ==
  /\ last.op = "pay" /\ moneyGood # None
  /\ RLe(Zero, last.goods0[last.self][moneyGood])
  /\ RLe(Zero, last.goods0[last.partner][moneyGood])

PayPost ==
  LET s == last.self
      r == last.partner
      ms == last.goods0[s][moneyGood]
      mr == last.goods0[r][moneyGood]
      amount == last.req1
  IN  /\ Completed
      /\ RLe(RNeg(mr), last.ret) /\ RLe(last.ret, ms)
      /\ last.ret = IF RGt(amount, ms) THEN ms
                    ELSE IF RLt(amount, RNeg(mr)) THEN RNeg(mr) ELSE amount
      /\ Delta(goods, last.goods0, s, moneyGood) = RNeg(last.ret)
      /\ Delta(goods, last.goods0, r, moneyGood) = last.ret
      /\ Held(goods, s, r, moneyGood) = Held(last.goods0, s, r, moneyGood)
      /\ RLe(Zero, goods[s][moneyGood]) /\ RLe(Zero, goods[r][moneyGood])
      /\ \A a \in Traders, g \in Goods \ {moneyGood} : goods[a][g] = last.goods0[a][g]

(* C7 as stated: with non-negative money on both sides, pay returns the    *)
(* amount clamped into [-recipient's money, payer's money], the payer's    *)
(* money decreases and the recipient's increases by exactly that, neither  *)
(* becomes negative, and no other good changes.                            *)
C7_Original == PayCase => PayPost

(* C7 as amended: the same, for a recipient other than the payer.          *)
C7_PayClamped == (PayCase /\ last.self # last.partner) => PayPost

(* C7 witness: a reverse payment to another agent clamped to what the      *)
(* recipient holds.                                                        *)
C7_Witness ==
  /\ PayCase /\ last.self # last.partner
  /\ RLt(last.req1, last.ret) /\ last.ret # Zero

(* C8: with no monetary good configured, buy, pay and a balance read fail  *)
(* with the configuration error, change no ledger, shortage or demand      *)
(* entry and dispatch no hook.                                             *)
C8_ConfigErrorIsClean ==
  (moneyGood = None /\ last.op \in {"buy", "pay", "balance"}) =>
    /\ last.err = "RuntimeError"
    /\ goods = last.goods0
    /\ currentShortage = last.short0
    /\ currentDemand = last.demand0
    /\ hooklog = <<>>

(* C8 witness: each of the three calls has failed that way, here a pay     *)
(* that followed another failed call.                                      *)
C8_Witness ==
  moneyGood = None /\ last.op = "pay" /\ last.err = "RuntimeError" /\ nops = 2

(***************************************************************************)
(* Properties of the edge graph.                                           *)
(***************************************************************************)
Holds(es, a, k, e) == e \in Range(ListOf(es[a], k))
HeldBy(es, a) == Range(alledges(es[a]))
InAnyList(es, e) == \E a \in AgentPool : e \in HeldBy(es, a)
Ends(e) == {edge[e].vertices[1], edge[e].vertices[2]}

DieCase ==
  /\ last.op = "die"
  /\ last.self \in Range(last.agents0[primitive[last.self]])
  /\ ~last.dead0[last.self]
  /\ \A e \in HeldBy(last.edges0, last.self) :
       /\ last.edge0[e].active
       /\ last.edge0[e].vertices[1] # last.edge0[e].vertices[2]

(* C9: after die() on a registered live agent whose edges are all active   *)
(* (each joining two different agents), every edge it held is inactive and *)
(* in no list of either endpoint, the agent is out of its primitive's      *)
(* registry, the live-count parameter is one less, and the agent is dead.  *)
C9_DieCutsAll ==
  DieCase =>
    LET a == last.self
        pr == primitive[a]
    IN  /\ last.err = "none"
        /\ \A e \in HeldBy(last.edges0, a) :
             /\ ~edge[e].active
             /\ \A b \in {last.edge0[e].vertices[1], last.edge0[e].vertices[2]} :
                  e \notin HeldBy(edges, b)
        /\ a \notin Range(agents[pr])
        /\ param[pr] = last.param0[pr] - 1
        /\ dead[a]

(* C10: in every reachable state an active edge is in the list for its     *)
(* kind of both of its vertices and in no other list of any agent, and an  *)
(* inactive edge is in no list.                                            *)
C10_EdgeMembership ==
  \A e \in EdgePool :
    edge[e].made =>
      IF edge[e].active
      THEN \A a \in AgentPool, k \in Kinds :
             Holds(edges, a, k, e) <=> (a \in Ends(e) /\ k = edge[e].kind)
      ELSE ~InAnyList(edges, e)

(***************************************************************************)
(* Properties of reassign.                                                 *)
(***************************************************************************)
ReassignCase ==
  /\ last.op = "reassign"
  /\ last.edge0[last.e].active
  /\ last.edge0[last.e].vertices[1] # last.edge0[last.e].vertices[2]
  /\ last.self \in Range(last.edge0[last.e].vertices)
  /\ last.other \notin Range(last.edge0[last.e].vertices)
  /\ \A a \in Range(last.edge0[last.e].vertices) :
       Holds(last.edges0, a, last.kind, last.e)

(* C11: reassign(oldagent, newagent) on an active edge held by both of its *)
(* vertices, for any other agent newagent, completes with the vertices     *)
(* being oldagent's former partner and newagent, the edge out of           *)
(* oldagent's list, in newagent's list and still in the partner's list     *)
(* for its kind, and edgeReassign dispatched once, after both lists were   *)
(* updated.                                                                *)
C11_ReassignCompletes ==
  ReassignCase =>
    LET e == last.e
        k == last.kind
        stay == Partner(last.edge0[e].vertices, last.self)
    IN  /\ last.err = "none"
        /\ edge[e].vertices = <<stay, last.other>>
        /\ ~Holds(edges, last.self, k, e)
        /\ Holds(edges, last.other, k, e)
        /\ Holds(edges, stay, k, e)
        /\ Len(hooklog) = 1
        /\ hooklog[1].name = "edgeReassign"
        /\ hooklog[1].edges = edges /\ hooklog[1].edge = edge

(***************************************************************************)
(* baseAgent.outbound and inbound, lines 144-162, with undirected=False:   *)
(* the edges of the kind that start, or end, at the agent.                 *)
(***************************************************************************)
outbound(es, ed, a, k) ==
  SelectSeq(ListOf(es[a], k), LAMBDA e : ed[e].startpoint = a)
inbound(es, ed, a, k) ==
  SelectSeq(ListOf(es[a], k), LAMBDA e : ed[e].endpoint = a)

(***************************************************************************)
(* baseAgent.parent and children, lines 181-188; 0 stands for None.        *)
(***************************************************************************)
parent(es, ed, a) ==
  LET p == inbound(es, ed, a, "lineage")
  IN  IF Len(p) > 0 THEN Partner(ed[p[1]].vertices, a) ELSE 0
children(es, ed, a) ==
  LET ob == outbound(es, ed, a, "lineage")
  IN  [i \in DOMAIN ob |-> Partner(ed[ob[i]].vertices, a)]

(***************************************************************************)
(* Properties of reproduce.                                                *)
(***************************************************************************)
Registered(ags, a) == a \in Range(ags[primitive[a]])
IdsOf(ags, pr) == {id[x] : x \in Range(ags[pr])}
Count(l, x) == Cardinality({i \in DOMAIN l : l[i] = x})

ReproduceCase == last.op = "reproduce" /\ Registered(last.agents0, last.self)

(* C12: reproduce([], {}) on a registered parent gives a child whose id is *)
(* one more than the largest id registered under the parent's primitive,   *)
(* appends it to that registry, adds exactly 1 to the primitive's count,   *)
(* and links it by exactly one 'lineage' edge directed parent -> child, so *)
(* that child.parent is the parent and the child is in parent.children.    *)
C12_ReproduceChild ==
  ReproduceCase =>
    LET a == last.self
        c == last.other
        e == last.e
        pr == primitive[a]
    IN  /\ last.err = "none"
        /\ id[c] = Max(IdsOf(last.agents0, pr)) + 1
        /\ agents[pr] = Append(last.agents0[pr], c)
        /\ param[pr] = last.param0[pr] + 1
        /\ ListOf(edges[c], "lineage") = <<e>>
        /\ Count(ListOf(edges[a], "lineage"), e) = 1
        /\ edge[e].active /\ edge[e].directed
        /\ edge[e].startpoint = a /\ edge[e].endpoint = c
        /\ parent(edges, edge, c) = a
        /\ c \in Range(children(edges, edge, a))

(***************************************************************************)
(* Births and deaths alone, from the same population.                      *)
(***************************************************************************)
NextLife == reproduce \/ die
SpecLife == InitGraph /\ [][NextLife]_vars

(* C13: no two agents registered under the same primitive share an id, in  *)
(* every state reached by reproduce and die calls from a population whose  *)
(* ids are unique within each primitive.                                   *)
C13_UniqueIds ==
  \A pr \in Primitives :
    \A i, j \in DOMAIN agents[pr] :
      i # j => id[agents[pr][i]] # id[agents[pr][j]]

(***************************************************************************)
(* Edge construction with every form of the direction argument: None, an   *)
(* int, a bool, an agent object (a vertex or not) and a value of another   *)
(* type.                                                                   *)
(***************************************************************************)
MaxInitOps == 2

AllDirs ==
  {DirNone, [t |-> "str", v |-> 0]}
    \cup {[t |-> "int", v |-> n] : n \in {-1, 0, 2}}
    \cup {[t |-> "bool", v |-> b] : b \in {0, 1}}
    \cup {[t |-> "agent", v |-> a] : a \in exists}

newEdgeAny ==
  /\ nops < MaxInitOps
  /\ FreeEdges # {}
  /\ \E a \in exists, b \in exists, dir \in AllDirs :
       \E st \in {NewEdgeCall(GraphState, Min(FreeEdges), a, b, "edge", dir, 1)} :
         /\ CommitGraph(st)
         /\ last' = LastGraph("newEdge", a, b, Min(FreeEdges), "edge", dir, st.err)

NextEdgeInit == newEdgeAny
SpecEdgeInit == InitGraph /\ [][NextEdgeInit]_vars

(***************************************************************************)
(* Properties of newEdge.                                                  *)
(***************************************************************************)
Oriented(e, from, to) ==
  /\ last.err = "none" /\ edge[e].made /\ edge[e].active
  /\ edge[e].directed /\ edge[e].startpoint = from /\ edge[e].endpoint = to
Unoriented(e) ==
  /\ last.err = "none" /\ edge[e].made /\ edge[e].active
  /\ ~edge[e].directed /\ edge[e].startpoint = 0 /\ edge[e].endpoint = 0
Rejected(e) ==
  /\ last.err = "ValueError"
  /\ edges = last.edges0
  /\ ~InAnyList(edges, e)
  /\ hooklog = <<>>

(* C14: newEdge maps direction to the orientation: None, 0 and False give  *)
(* an undirected edge with startpoint and endpoint None; a positive int    *)
(* and True give caller -> partner; a negative int gives partner ->        *)
(* caller; an agent that is one of the two vertices gives an edge ending   *)
(* at it and starting at the other vertex; anything else raises            *)
(* ValueError, registers the edge nowhere and dispatches no edgeInit.      *)
C14_DirectionMapping ==
  last.op = "newEdge" =>
    LET a == last.self
        b == last.other
        e == last.e
        d == last.dir
    IN  CASE d.t = "none" -> Unoriented(e)
          [] d.t \in {"int", "bool"} /\ d.v = 0 -> Unoriented(e)
          [] d.t \in {"int", "bool"} /\ d.v > 0 -> Oriented(e, a, b)
          [] d.t = "int" /\ d.v < 0 -> Oriented(e, b, a)
          [] d.t = "agent" /\ d.v \in {a, b} ->
               Oriented(e, IF d.v = b THEN a ELSE b, d.v)
          [] OTHER -> Rejected(e)

(* C14 witness: an agent that is not a vertex was given as direction and   *)
(* the call was rejected, after an earlier call made a partner -> caller   *)
(* edge.                                                                   *)
C14_Witness ==
  /\ last.op = "newEdge" /\ last.dir.t = "agent"
  /\ last.dir.v \notin {last.self, last.other}
  /\ last.err = "ValueError"
  /\ \E e \in EdgePool :
       /\ edge[e].directed
       /\ edge[e].startpoint = edge[e].vertices[2]
       /\ edge[e].vertices[1] # edge[e].vertices[2]

(***************************************************************************)
(* Properties of dead agents.                                              *)
(***************************************************************************)

(* C15: an agent on which die() has completed holds no edge: all of its    *)
(* lists are empty in every reachable state, whatever is called later.     *)
C15_DeadHoldsNoEdge ==
  \A a \in exists : dead[a] => alledges(edges[a]) = <<>>

(***************************************************************************)
(* Properties of the hook order of trade.                                  *)
(***************************************************************************)
PreTradeFirst ==
  /\ Len(hooklog) >= 1
  /\ hooklog[1].name = "preTrade"
  /\ hooklog[1].args = <<last.self, last.partner, last.good1, last.req1,
                         last.good2, last.req2>>
  /\ hooklog[1].goods = last.goods0
  /\ hooklog[1].short = last.short0
  /\ hooklog[1].demand = last.demand0
PostTradeLast ==
  /\ Len(hooklog) = 2
  /\ hooklog[2].name = "postTrade"
  /\ hooklog[2].args = <<last.self, last.partner, last.good1, last.amt1,
                         last.good2, last.amt2>>
  /\ hooklog[2].goods = goods
  /\ hooklog[2].short = currentShortage
  /\ hooklog[2].demand = currentDemand

(* C16: within one trade call preTrade is dispatched exactly once, with    *)
(* the requested amounts, before any ledger, shortage or demand entry has  *)
(* changed; postTrade exactly once, with the final amounts, after the four *)
(* ledger updates and the demand updates; and nothing in between.          *)
C16_TradeHookOrder ==
  last.op = "trade" => (PreTradeFirst /\ PostTradeLast)

(***************************************************************************)
(* Properties of the order of steps of die.                                *)
(***************************************************************************)
CutObserved(ev) ==
  LET e == ev.args[1]
      pr == primitive[last.self]
  IN  /\ ~ev.edge[e].active
      /\ \A b \in Range(ev.edge[e].vertices) : e \notin HeldBy(ev.edges, b)
      /\ last.self \notin Range(ev.agents[pr])
      /\ ev.param[pr] = last.param0[pr] - 1
      /\ ~ev.dead[last.self]
DeathObserved(ev) ==
  LET a == last.self
      pr == primitive[a]
  IN  /\ ev.args = <<a>>
      /\ a \notin Range(ev.agents[pr])
      /\ ev.param[pr] = last.param0[pr] - 1
      /\ alledges(ev.edges[a]) = <<>>
      /\ \A e \in HeldBy(last.edges0, a) : ~ev.edge[e].active
      /\ ~ev.dead[a]
      /\ dead[a]

(* C17: die() deregisters the agent, decrements the count, cuts every edge *)
(* the agent holds (each edgeCut dispatched only after that edge is out of *)
(* both vertices' lists and inactive), dispatches the death hook and only  *)
(* then marks the agent dead: the death hook observes an agent that is     *)
(* deregistered and holds no edge but is not yet marked dead.              *)
C17_DieOrder ==
  last.op = "die" =>
    /\ \A i \in DOMAIN hooklog :
         /\ hooklog[i].name \in {"edgeCut", "baseAgentDie"}
         /\ hooklog[i].name = "edgeCut" => CutObserved(hooklog[i])
         /\ hooklog[i].name = "baseAgentDie" =>
              (i = Len(hooklog) /\ DeathObserved(hooklog[i]))
    /\ last.err = "none" =>
         /\ Len(hooklog) = Len(alledges(last.edges0[last.self])) + 1
         /\ hooklog[Len(hooklog)].name = "baseAgentDie"
    /\ last.err # "none" => (dead[last.self] = last.dead0[last.self])

(* C17 witness: a die() that completed on an agent holding two edges.      *)
C17_Witness ==
  /\ last.op = "die" /\ last.err = "none"
  /\ Len(hooklog) = 3
  /\ hooklog[1].args # hooklog[2].args

(***************************************************************************)
(* Properties of trade on non-negative ledgers.                            *)
(***************************************************************************)
SolventTrade ==
  /\ last.op = "trade"
  /\ last.good1 # last.good2
  /\ NonNegative(last.goods0)

(* C18: when no holding is negative before the call, a trade in two        *)
(* different goods, with amounts of any sign, completes without raising    *)
(* and leaves the caller's and the partner's holdings of both goods        *)
(* non-negative, also when both budget constraints fire in sequence and    *)
(* when an amount is 0.                                                    *)
C18_SolventTradeCompletes ==
  SolventTrade =>
    /\ last.err = "none"
    /\ \A a \in {last.self, last.partner}, g \in {last.good1, last.good2} :
         RLe(Zero, goods[a][g])

(* C18 witness: both budget constraints fired in one such trade between    *)
(* two agents, the second one after an earlier trade.                      *)
C18_Witness ==
  /\ SolventTrade /\ last.self # last.partner
  /\ last.clampA # "none" /\ last.clampB # "none"
  /\ nops = 2

(***************************************************************************)
(* Properties of directed edges.                                           *)
(***************************************************************************)
StartsAt(e) == {a \in Ends(e) : e \in Range(outbound(edges, edge, a, edge[e].kind))}
EndsAt(e) == {a \in Ends(e) : e \in Range(inbound(edges, edge, a, edge[e].kind))}

(* C19: after any call that completed, every active directed edge has its  *)
(* startpoint and its endpoint equal to its two vertices, one each, and,   *)
(* when the vertices differ, is in outbound(kind) of exactly one vertex    *)
(* and in inbound(kind) of the other.                                      *)
C19_DirectedEndsAreVertices ==
  last.err = "none" =>
    \A e \in EdgePool :
      (edge[e].made /\ edge[e].active /\ edge[e].directed) =>
        LET v == edge[e].vertices
        IN  /\ <<edge[e].startpoint, edge[e].endpoint>> \in {v, <<v[2], v[1]>>}
            /\ v[1] # v[2] =>
                 /\ Cardinality(StartsAt(e)) = 1
                 /\ Cardinality(EndsAt(e)) = 1
                 /\ StartsAt(e) # EndsAt(e)

(***************************************************************************)
(* Properties of the live count.                                           *)
(***************************************************************************)
CountMatches == \A pr \in Primitives : param[pr] = Len(agents[pr])
DieUnregistered == last.op = "die" /\ ~Registered(last.agents0, last.self)

(* C20: the count parameter of every primitive equals the length of its    *)
(* registry in every state reached by reproduce and die calls, and a       *)
(* die() on an agent that is not registered fails and changes neither.     *)
C20_CountMatchesRegistry ==
  /\ CountMatches
  /\ DieUnregistered =>
       /\ last.err = "ValueError"
       /\ agents = last.agents0
       /\ param = last.param0

(* C20 witness: a second die() on an agent, after its first die() took it  *)
(* out of the registry, has failed.                                        *)
C20_Witness ==
  /\ DieUnregistered /\ last.err = "ValueError"
  /\ dead[last.self]
  /\ nops = MaxGraphOps

====
